---------------------------- MODULE Spec2Model ----------------------------
(***************************************************************************)
(* A model of the GPT-2 re-implementation in src/train_gpt2.py and of the  *)
(* earlier draft of the same layers in src/model.py.                       *)
(*                                                                         *)
(* The code is a set of independent entry points: the attention layer's    *)
(* forward, the block's forward, GPT.forward, GPT.from_pretrained and the  *)
(* training script.  A behaviour of the model runs one of them, chosen by  *)
(* the variable unit in the initial state, one source line (or one loop    *)
(* iteration) per step.                                                    *)
(*                                                                         *)
(* Tensors are modelled by their shape and, where a claim is about which   *)
(* element goes where, by a function from index tuples to elements.  The   *)
(* floating point results of the learned layers are uninterpreted: a value *)
(* computed by a layer is the term <<layer, argument>>, so two values are  *)
(* equal exactly when they were computed by the same layers in the same    *)
(* order from the same input.                                              *)
(***************************************************************************)
EXTENDS Integers, Sequences, FiniteSets, TLC

(***************************************************************************)
(* The configuration, scaled down.  GPTConfig (train_gpt2.py:76-80) and    *)
(* the table of from_pretrained (train_gpt2.py:130-136) set these to       *)
(* 1024, 50257/58257, 12.., 768..; the model keeps them distinct and small. *)
(***************************************************************************)
block_size == 3
vocab_size == 5
n_layer == 2
n_embd == 2
MaxB == 2

\* The inputs tried: the token list is up to MaxExtra tokens shorter or longer
\* than the B*T + 1 the batch needs, and starts at a token id up to MaxSeed.
MaxExtra == 1
MaxSeed == 1

VARIABLES
    unit,        \* the entry point this behaviour runs
    \* CausalSelfAttention.forward
    a_file,      \* "train_gpt2" or "model": whose forward runs
    a_T,         \* the sequence length of the input x
    a_pc,        \* the line forward is at, "returned" or "raised"
    att,         \* the T x T score matrix, a matrix record, or NoTensor
    a_err,       \* the exception raised, or "none"
    \* Block.forward
    b_file,      \* "train_gpt2" or "model"
    b_pc,        \* the line forward is at, "returned" or "raised"
    b_in,        \* the argument x
    bx,          \* the local x
    b_err,
    \* GPT.forward
    f_B, f_T,    \* idx.size()
    idx_max,     \* the largest token id in idx
    targets,     \* the argument targets: [isNone, shape, at]
    f_pc,
    pos,         \* the sequence of position indices
    pos_emb, tok_emb,
    fx,          \* the local x: [term, shape]
    f_i,         \* how many blocks of self.transformer.h the loop has applied
    logits, loss,
    stages,      \* the layers evaluated so far, in order
    f_err,
    \* GPT.from_pretrained
    ckpt,        \* sd_hf, the checkpoint's state dict: key -> tensor
    sd,          \* the state dict of the freshly constructed model
    sd_keys, sd_keys_hf,
    imp_i,       \* how many keys of sd_keys_hf the loop has handled
    imp_pc,
    copies,      \* per key of sd, how many times copy_ has written it
    imp_err,
    \* the training script
    tokens,      \* enc.encode(text): a sequence of token ids
    buf, x, y,
    t_pc,
    t_i,         \* the loop variable i of line 201
    grad,        \* the iterations whose backward pass has added to .grad
    t_loss,      \* the loss of the last forward pass: [iter, on]
    applied,     \* per optimizer step taken, the .grad it used
    events,      \* the calls of the loop body made so far: <<iteration, call>>
    t_err

attnVars == <<a_file, a_T, a_pc, att, a_err>>
blockVars == <<b_file, b_pc, b_in, bx, b_err>>
fwdVars == <<f_B, f_T, idx_max, targets, f_pc, pos, pos_emb, tok_emb, fx, f_i, logits,
             loss, stages, f_err>>
impVars == <<ckpt, sd, sd_keys, sd_keys_hf, imp_i, imp_pc, copies, imp_err>>
trainVars == <<tokens, buf, x, y, t_pc, t_i, grad, t_loss, applied, events, t_err>>
vars == <<unit, attnVars, blockVars, fwdVars, impVars, trainVars>>

\* What the actions of one entry point leave alone.
notAttn == <<blockVars, fwdVars, impVars, trainVars>>
notBlock == <<attnVars, fwdVars, impVars, trainVars>>
notFwd == <<attnVars, blockVars, impVars, trainVars>>
notImp == <<attnVars, blockVars, fwdVars, trainVars>>
notTrain == <<attnVars, blockVars, fwdVars, impVars>>

Files == {"train_gpt2", "model"}

Min(a, b) == IF a < b THEN a ELSE b

(***************************************************************************)
(* Matrices: [rows, cols, at], at a function on (0..rows-1) x (0..cols-1). *)
(***************************************************************************)
NoTensor == [rows |-> 0, cols |-> 0, at |-> <<>>]

Matrix(r, c, f(_, _)) ==
    [rows |-> r, cols |-> c,
     at |-> [p \in (0 .. r - 1) \X (0 .. c - 1) |-> f(p[1], p[2])]]

-----------------------------------------------------------------------------
(***************************************************************************)
(* CausalSelfAttention                                                     *)
(***************************************************************************)

\* A mask that also hides the diagonal: torch.tril(..., diagonal=-1).
TrilStrict(i, j) == IF j < i THEN 1 ELSE 0

\* torch.tril(torch.ones(n, n)): entry (i, j) is 1 on and below the diagonal.
Tril(i, j) == IF j <= i THEN 1 ELSE 0

\* The registered buffer "bias", seen as its last two dimensions.
bias == Matrix(block_size, block_size, Tril)

\* m[:r, :c]: a slice's stop is clamped to the dimension's size.
SliceTo(m, r, c) ==
    Matrix(Min(r, m.rows), Min(c, m.cols), LAMBDA i, j : m.at[<<i, j>>])

\* m[:stop:step] on the rows, every column kept: rows 0, step, 2*step, ...
\* below the clamped stop (step >= 1).
SliceStep(m, stop, step) ==
    LET rs == {i \in 0 .. Min(stop, m.rows) - 1 : i % step = 0}
    IN  Matrix(Cardinality(rs), m.cols, LAMBDA i, j : m.at[<<i * step, j>>])

\* self.bias[:,:,:T,:T] of train_gpt2.py.
MaskSliceTrain(len) == SliceTo(bias, len, len)

\* self.bias[:,:,:T:T] of model.py: one subscript, with stop T and step T.
MaskSliceModelPy(len) == SliceStep(bias, len, len)

\* Whether a mask of this shape broadcasts to a len x len score matrix.
Broadcastable(m, len) ==
    /\ m.rows = len \/ m.rows = 1
    /\ m.cols = len \/ m.cols = 1

\* The mask's entry that position (i, j) of the scores reads after broadcasting.
BroadcastAt(m, i, j) ==
    m.at[<<IF m.rows = 1 THEN 0 ELSE i, IF m.cols = 1 THEN 0 ELSE j>>]

\* att.masked_fill(mask == 0, -inf).
MaskedFill(a, m) ==
    Matrix(a.rows, a.cols,
           LAMBDA i, j : IF BroadcastAt(m, i, j) = 0 THEN "-inf" ELSE a.at[<<i, j>>])

\* F.softmax(att, dim=-1): a -inf score gets weight 0, a finite one a positive
\* weight; a row of -inf only is 0/0.
Softmax(a) ==
    Matrix(a.rows, a.cols,
           LAMBDA i, j :
               IF \A c \in 0 .. a.cols - 1 : a.at[<<i, c>>] = "-inf" THEN "nan"
               ELSE IF a.at[<<i, j>>] = "-inf" THEN "zero" ELSE "pos")

AttnIdle ==
    /\ a_file = "train_gpt2" /\ a_T = 0 /\ a_pc = "idle"
    /\ att = NoTensor /\ a_err = "none"

AttnInit ==
    /\ a_file \in Files
    /\ a_T \in 0 .. block_size + 1
    /\ a_pc = "l51"
    /\ att = NoTensor
    /\ a_err = "none"

\* train_gpt2.py line 51: the scaled scores q @ k^T, all finite.
AttnScores ==
    /\ unit = "attn" /\ a_file = "train_gpt2" /\ a_pc = "l51"
    /\ att' = Matrix(a_T, a_T, LAMBDA i, j : "fin")
    /\ a_pc' = "l52"
    /\ UNCHANGED <<unit, a_file, a_T, a_err, notAttn>>

\* model.py line 51: k.shape(-1) calls a torch.Size, which is not callable.
AttnScoresModelPy ==
    /\ unit = "attn" /\ a_file = "model" /\ a_pc = "l51"
    /\ a_pc' = "raised"
    /\ a_err' = "TypeError"
    /\ UNCHANGED <<unit, a_file, a_T, att, notAttn>>

\* train_gpt2.py line 52.
AttnMask ==
    /\ unit = "attn" /\ a_file = "train_gpt2" /\ a_pc = "l52"
    /\ IF Broadcastable(MaskSliceTrain(a_T), a_T)
       THEN /\ att' = MaskedFill(att, MaskSliceTrain(a_T))
            /\ a_pc' = "l53"
            /\ a_err' = a_err
       ELSE /\ a_pc' = "raised"
            /\ a_err' = "RuntimeError"
            /\ att' = att
    /\ UNCHANGED <<unit, a_file, a_T, notAttn>>

\* train_gpt2.py line 53.
AttnSoftmax ==
    /\ unit = "attn" /\ a_file = "train_gpt2" /\ a_pc = "l53"
    /\ att' = Softmax(att)
    /\ a_pc' = "returned"
    /\ UNCHANGED <<unit, a_file, a_T, a_err, notAttn>>

-----------------------------------------------------------------------------
(***************************************************************************)
(* Block                                                                   *)
(***************************************************************************)

Add(u, v) == <<"add", u, v>>
Apply(layer, u) == <<layer, u>>

Inputs == {<<"x">>, <<"x'">>}

\* A block that feeds the attention the un-normalized input.
Line70NoNorm(u) == Add(u, Apply("attn", u))

\* x = x + self.attn(self.ln_1(x))
Line70(u) == Add(u, Apply("attn", Apply("ln_1", u)))

\* x = x + self.mlp(self.ln_2(x))
Line71(u) == Add(u, Apply("mlp", Apply("ln_2", u)))

BlockIdle ==
    /\ b_file = "train_gpt2" /\ b_pc = "idle" /\ b_in = <<"x">> /\ bx = <<"x">>
    /\ b_err = "none"

BlockInit ==
    /\ b_file \in Files
    /\ b_in \in Inputs
    /\ bx = b_in
    /\ b_pc = "l70"
    /\ b_err = "none"

\* Block.forward's first line; model.py's attention raises (its line 51).
BlockAttn ==
    /\ unit = "block" /\ b_pc = "l70"
    /\ IF b_file = "train_gpt2"
       THEN bx' = Line70(bx) /\ b_pc' = "l71" /\ b_err' = b_err
       ELSE bx' = bx /\ b_pc' = "raised" /\ b_err' = "TypeError"
    /\ UNCHANGED <<unit, b_file, b_in, notBlock>>

BlockMlp ==
    /\ unit = "block" /\ b_pc = "l71"
    /\ bx' = Line71(bx)
    /\ b_pc' = "returned"
    /\ UNCHANGED <<unit, b_file, b_in, b_err, notBlock>>

-----------------------------------------------------------------------------
(***************************************************************************)
(* GPT.forward (train_gpt2.py)                                             *)
(*                                                                         *)
(* idx is a tensor of token ids as the tokenizer produces them, all below   *)
(* vocab_size; its shape (B, T) and its largest id are kept.  targets has  *)
(* idx's shape and holds at (b, t) the label <<b, t>> of its own cell, so  *)
(* that what a reshaping pairs with what can be read off the result.       *)
(***************************************************************************)

NoVal == [term |-> <<>>, shape |-> <<>>]
NoTargets == [isNone |-> TRUE, shape |-> <<>>, at |-> <<>>]
NoLoss == [isNone |-> TRUE, shape |-> <<>>, pairs |-> <<>>]

TargetsOf(rows, cols) ==
    [isNone |-> FALSE, shape |-> <<rows, cols>>,
     at |-> [p \in (0 .. rows - 1) \X (0 .. cols - 1) |-> p]]

\* An assertion that lets one position too many through.
AssertOffByOne(len) == len <= block_size + 1

\* assert T <= self.config.block_size
AssertBlockSize(len) == len <= block_size

\* The tables of GPT.__init__: rows of wte and wpe, and lm_head's out_features.
wte_rows == vocab_size
wpe_rows == block_size
lm_head_out == vocab_size

\* torch.arange(0, T)
Arange(len) == [n \in 1 .. len |-> n - 1]

\* An nn.Embedding with the given number of rows accepts these indices.
LookupOk(rows, indices) == \A n \in 1 .. Len(indices) : indices[n] \in 0 .. rows - 1

\* Broadcasting of two shapes, aligned at the last dimension.
Dim(s, k, n) == IF k + Len(s) - n >= 1 THEN s[k + Len(s) - n] ELSE 1
BroadcastOk(s, t) ==
    LET n == IF Len(s) > Len(t) THEN Len(s) ELSE Len(t)
    IN  \A k \in 1 .. n :
            \/ Dim(s, k, n) = Dim(t, k, n)
            \/ Dim(s, k, n) = 1
            \/ Dim(t, k, n) = 1
BroadcastShape(s, t) ==
    LET n == IF Len(s) > Len(t) THEN Len(s) ELSE Len(t)
    IN  [k \in 1 .. n |-> IF Dim(s, k, n) = 1 THEN Dim(t, k, n) ELSE Dim(s, k, n)]

\* A shape with its last dimension replaced: what nn.Linear(_, out) returns.
LinearShape(s, out) == [k \in 1 .. Len(s) |-> IF k = Len(s) THEN out ELSE s[k]]

\* The index of the n-th element (from 0) of a contiguous tensor of the given
\* two-dimensional shape, in memory order.
Unflatten(shape, n) == <<n \div shape[2], n % shape[2]>>

\* Reading the targets column by column.
TargetsViewColumnMajor(shape, n) == <<n % shape[1], n \div shape[1]>>

\* targets.view(-1): which element of targets is the n-th (from 0).
TargetsView(shape, n) == Unflatten(shape, n)

\* logits.view(-1, logits.size(-1)): which position's row is the n-th (from 0).
LogitsView(shape, n) == Unflatten(<<shape[1], shape[2]>>, n)

\* F.cross_entropy(logits.view(-1, V), targets.view(-1)): the n-th row of the
\* flattened logits is scored against the n-th flattened target; the mean is
\* a scalar.
CrossEntropy(lg, tg) ==
    LET N == lg.shape[1] * lg.shape[2]
    IN  [isNone |-> FALSE, shape |-> <<>>,
         pairs |-> [n \in 1 .. N |->
                      <<LogitsView(lg.shape, n - 1),
                        tg.at[TargetsView(tg.shape, n - 1)]>>]]

FwdIdle ==
    /\ f_B = 0 /\ f_T = 0 /\ idx_max = 0 /\ targets = NoTargets /\ f_pc = "idle"
    /\ pos = <<>> /\ pos_emb = NoVal /\ tok_emb = NoVal /\ fx = NoVal
    /\ f_i = 0 /\ logits = NoVal /\ loss = NoLoss /\ stages = <<>>
    /\ f_err = "none"

FwdInit ==
    /\ f_B \in 1 .. MaxB
    /\ f_T \in 0 .. block_size + 1
    /\ idx_max \in 0 .. vocab_size - 1
    /\ targets \in {NoTargets, TargetsOf(f_B, f_T)}
    /\ f_pc = "l100"
    /\ pos = <<>> /\ pos_emb = NoVal /\ tok_emb = NoVal /\ fx = NoVal
    /\ f_i = 0 /\ logits = NoVal /\ loss = NoLoss /\ stages = <<>>
    /\ f_err = "none"

\* line 100
FwdAssert ==
    /\ unit = "forward" /\ f_pc = "l100"
    /\ IF AssertBlockSize(f_T)
       THEN f_pc' = "l102" /\ f_err' = f_err
       ELSE f_pc' = "raised" /\ f_err' = "AssertionError"
    /\ UNCHANGED <<unit, f_B, f_T, idx_max, targets, pos, pos_emb, tok_emb, fx, f_i,
                   logits, loss, stages, notFwd>>

\* line 102
FwdPos ==
    /\ unit = "forward" /\ f_pc = "l102"
    /\ pos' = Arange(f_T)
    /\ f_pc' = "l103"
    /\ UNCHANGED <<unit, f_B, f_T, idx_max, targets, pos_emb, tok_emb, fx, f_i,
                   logits, loss, stages, f_err, notFwd>>

\* line 103
FwdWpe ==
    /\ unit = "forward" /\ f_pc = "l103"
    /\ stages' = Append(stages, <<"wpe", 0>>)
    /\ IF LookupOk(wpe_rows, pos)
       THEN /\ pos_emb' = [term |-> Apply("wpe", <<"pos">>), shape |-> <<f_T, n_embd>>]
            /\ f_pc' = "l104" /\ f_err' = f_err
       ELSE /\ pos_emb' = pos_emb
            /\ f_pc' = "raised" /\ f_err' = "IndexError"
    /\ UNCHANGED <<unit, f_B, f_T, idx_max, targets, pos, tok_emb, fx, f_i,
                   logits, loss, notFwd>>

\* line 104
FwdWte ==
    /\ unit = "forward" /\ f_pc = "l104"
    /\ stages' = Append(stages, <<"wte", 0>>)
    /\ IF LookupOk(wte_rows, <<idx_max>>)
       THEN /\ tok_emb' = [term |-> Apply("wte", <<"idx">>),
                           shape |-> <<f_B, f_T, n_embd>>]
            /\ f_pc' = "l107" /\ f_err' = f_err
       ELSE /\ tok_emb' = tok_emb
            /\ f_pc' = "raised" /\ f_err' = "IndexError"
    /\ UNCHANGED <<unit, f_B, f_T, idx_max, targets, pos, pos_emb, fx, f_i,
                   logits, loss, notFwd>>

\* line 107
FwdAdd ==
    /\ unit = "forward" /\ f_pc = "l107"
    /\ BroadcastOk(pos_emb.shape, tok_emb.shape)
    /\ stages' = Append(stages, <<"add", 0>>)
    /\ fx' = [term |-> Add(pos_emb.term, tok_emb.term),
              shape |-> BroadcastShape(pos_emb.shape, tok_emb.shape)]
    /\ f_pc' = "l109"
    /\ UNCHANGED <<unit, f_B, f_T, idx_max, targets, pos, pos_emb, tok_emb, f_i,
                   logits, loss, f_err, notFwd>>

\* Iterating the list from its end.
BlockAtReversed(i) == n_layer - 1 - i

\* The element of self.transformer.h the loop's i-th iteration (from 0) visits.
BlockAt(i) == i

\* lines 109-110: one iteration of the loop over self.transformer.h
FwdBlock ==
    /\ unit = "forward" /\ f_pc = "l109" /\ f_i < n_layer
    /\ stages' = Append(stages, <<"h", BlockAt(f_i)>>)
    /\ fx' = [fx EXCEPT !.term = <<"h", BlockAt(f_i), fx.term>>]
    /\ f_i' = f_i + 1
    /\ UNCHANGED <<unit, f_B, f_T, idx_max, targets, f_pc, pos, pos_emb, tok_emb,
                   logits, loss, f_err, notFwd>>

\* line 112, once the loop is exhausted
FwdLnF ==
    /\ unit = "forward" /\ f_pc = "l109" /\ f_i = n_layer
    /\ stages' = Append(stages, <<"ln_f", 0>>)
    /\ fx' = [fx EXCEPT !.term = Apply("ln_f", fx.term)]
    /\ f_pc' = "l114"
    /\ UNCHANGED <<unit, f_B, f_T, idx_max, targets, pos, pos_emb, tok_emb, f_i,
                   logits, loss, f_err, notFwd>>

\* line 114
FwdLmHead ==
    /\ unit = "forward" /\ f_pc = "l114"
    /\ stages' = Append(stages, <<"lm_head", 0>>)
    /\ logits' = [term |-> Apply("lm_head", fx.term),
                  shape |-> LinearShape(fx.shape, lm_head_out)]
    /\ f_pc' = "l115"
    /\ UNCHANGED <<unit, f_B, f_T, idx_max, targets, pos, pos_emb, tok_emb, fx, f_i,
                   loss, f_err, notFwd>>

\* lines 115-118
FwdLoss ==
    /\ unit = "forward" /\ f_pc = "l115"
    /\ IF targets.isNone
       THEN loss' = NoLoss /\ stages' = stages
       ELSE /\ loss' = CrossEntropy(logits, targets)
            /\ stages' = Append(stages, <<"cross_entropy", 0>>)
    /\ f_pc' = "returned"
    /\ UNCHANGED <<unit, f_B, f_T, idx_max, targets, pos, pos_emb, tok_emb, fx, f_i,
                   logits, f_err, notFwd>>

-----------------------------------------------------------------------------
(***************************************************************************)
(* GPT.from_pretrained (train_gpt2.py)                                     *)
(*                                                                         *)
(* A state dict key is the sequence of its dot-separated components.  A    *)
(* tensor is [shape, at], at a function from index tuples (from 0) to      *)
(* elements.  A parameter of the fresh model holds 0 everywhere; element    *)
(* number o (row-major) of the checkpoint's n-th tensor is 100*n + o + 1.   *)
(***************************************************************************)

LayerNames == <<"0", "1", "2", "3", "4", "5">>

\* The parameters and buffers of one Block, in registration order
\* (Block.__init__, CausalSelfAttention.__init__, MLP.__init__).
BlockEntries ==
    << <<"ln_1", "weight">>, <<"ln_1", "bias">>,
       <<"attn", "c_attn", "weight">>, <<"attn", "c_attn", "bias">>,
       <<"attn", "c_proj", "weight">>, <<"attn", "c_proj", "bias">>,
       <<"attn", "bias">>,
       <<"ln_2", "weight">>, <<"ln_2", "bias">>,
       <<"mlp", "c_fc", "weight">>, <<"mlp", "c_fc", "bias">>,
       <<"mlp", "c_proj", "weight">>, <<"mlp", "c_proj", "bias">> >>

NBlockEntries == Len(BlockEntries)

\* model.state_dict().keys() of GPT(config), in order.
StateDictKeys ==
    [n \in 1 .. 2 + n_layer * NBlockEntries + 3 |->
        IF n = 1 THEN <<"transformer", "wte", "weight">>
        ELSE IF n = 2 THEN <<"transformer", "wpe", "weight">>
        ELSE IF n <= 2 + n_layer * NBlockEntries
        THEN <<"transformer", "h", LayerNames[((n - 3) \div NBlockEntries) + 1]>>
             \o BlockEntries[((n - 3) % NBlockEntries) + 1]
        ELSE IF n = n_layer * NBlockEntries + 3 THEN <<"transformer", "ln_f", "weight">>
        ELSE IF n = n_layer * NBlockEntries + 4 THEN <<"transformer", "ln_f", "bias">>
        ELSE <<"lm_head", "weight">>]

Range(q) == {q[n] : n \in 1 .. Len(q)}

\* k.endswith(w) for a w that starts at a component boundary of k.
EndsWith(k, w) ==
    /\ Len(k) >= Len(w)
    /\ SubSeq(k, Len(k) - Len(w) + 1, Len(k)) = w

\* k.endswith('.' + w): w is preceded by at least one more component.
EndsWithDot(k, w) == Len(k) > Len(w) /\ EndsWith(k, w)

\* The shape of each entry of the model's state dict.
ModelShape(k) ==
    IF EndsWith(k, <<"wte", "weight">>) THEN <<vocab_size, n_embd>>
    ELSE IF EndsWith(k, <<"wpe", "weight">>) THEN <<block_size, n_embd>>
    ELSE IF EndsWith(k, <<"lm_head", "weight">>) THEN <<vocab_size, n_embd>>
    ELSE IF EndsWith(k, <<"c_attn", "weight">>) THEN <<3 * n_embd, n_embd>>
    ELSE IF EndsWith(k, <<"c_attn", "bias">>) THEN <<3 * n_embd>>
    ELSE IF EndsWith(k, <<"attn", "c_proj", "weight">>) THEN <<n_embd, n_embd>>
    ELSE IF EndsWith(k, <<"attn", "bias">>) THEN <<1, 1, block_size, block_size>>
    ELSE IF EndsWith(k, <<"c_fc", "weight">>) THEN <<4 * n_embd, n_embd>>
    ELSE IF EndsWith(k, <<"c_fc", "bias">>) THEN <<4 * n_embd>>
    ELSE IF EndsWith(k, <<"mlp", "c_proj", "weight">>) THEN <<n_embd, 4 * n_embd>>
    ELSE <<n_embd>>

Reverse(q) == [n \in 1 .. Len(q) |-> q[Len(q) + 1 - n]]

\* The index tuples of a tensor of the given shape.
Indices(shape) ==
    IF Len(shape) = 0 THEN {<<>>}
    ELSE IF Len(shape) = 1 THEN {<<i>> : i \in 0 .. shape[1] - 1}
    ELSE IF Len(shape) = 2 THEN (0 .. shape[1] - 1) \X (0 .. shape[2] - 1)
    ELSE (0 .. shape[1] - 1) \X (0 .. shape[2] - 1)
         \X (0 .. shape[3] - 1) \X (0 .. shape[4] - 1)

\* The row-major offset of an index tuple.
Offset(shape, p) ==
    IF Len(shape) = 0 THEN 0
    ELSE IF Len(shape) = 1 THEN p[1]
    ELSE IF Len(shape) = 2 THEN p[1] * shape[2] + p[2]
    ELSE ((p[1] * shape[2] + p[2]) * shape[3] + p[3]) * shape[4] + p[4]

Tensor(shape, f(_)) == [shape |-> shape, at |-> [p \in Indices(shape) |-> f(p)]]

\* The fresh model's entry k: the mask buffer, or a parameter not yet loaded.
FreshEntry(k) ==
    IF EndsWith(k, <<"attn", "bias">>)
    THEN Tensor(ModelShape(k), LAMBDA p : Tril(p[3], p[4]))
    ELSE Tensor(ModelShape(k), LAMBDA p : 0)

FreshStateDict == [k \in Range(StateDictKeys) |-> FreshEntry(k)]

\* The list without the attention's output projection.
TransposedShort ==
    << <<"attn", "c_attn", "weight">>,
       <<"mlp", "c_fc", "weight">>, <<"mlp", "c_proj", "weight">> >>

\* transposed = [...]
transposed ==
    << <<"attn", "c_attn", "weight">>, <<"attn", "c_proj", "weight">>,
       <<"mlp", "c_fc", "weight">>, <<"mlp", "c_proj", "weight">> >>

\* any(k.endswith(w) for w in transposed)
IsTransposed(k) == \E n \in 1 .. Len(transposed) : EndsWith(k, transposed[n])

\* Tensor.t(): a matrix with its dimensions swapped; a vector or scalar as is.
Transpose(t) ==
    IF Len(t.shape) = 2
    THEN Tensor(Reverse(t.shape), LAMBDA p : t.at[<<p[2], p[1]>>])
    ELSE t

\* dest.copy_(src) for a src of dest's shape.
CopyInto(dest, src) == [shape |-> dest.shape, at |-> [p \in DOMAIN dest.at |-> src.at[p]]]

\* The filters of lines 143 and 150-151.
IsMaskBuffer(k) == EndsWithDot(k, <<"attn", "bias">>)
IsMaskedBias(k) == EndsWithDot(k, <<"attn", "masked_bias">>)

(***************************************************************************)
(* The checkpoints tried.  The well-formed one holds every parameter of    *)
(* the model, the four Conv1D weights with their two dimensions swapped,   *)
(* and, depending on the library's version, the attention's two buffers.   *)
(* A malformed one differs from it in one place: a key dropped, a key      *)
(* added, a key renamed, or a tensor of another shape.                     *)
(***************************************************************************)
ExtraKey == <<"transformer", "extra", "weight">>

HfKeyOrderPlain(buffers) ==
    LET withMasked ==
            [n \in 1 .. Len(StateDictKeys) + n_layer |->
                IF n <= Len(StateDictKeys) THEN StateDictKeys[n]
                ELSE <<"transformer", "h", LayerNames[n - Len(StateDictKeys)],
                       "attn", "masked_bias">>]
    IN  IF buffers THEN withMasked
        ELSE SelectSeq(StateDictKeys, LAMBDA k : ~IsMaskBuffer(k))

\* The keys in the model's order, or in the opposite order.
HfKeyOrder(buffers, backwards) ==
    IF backwards THEN Reverse(HfKeyOrderPlain(buffers)) ELSE HfKeyOrderPlain(buffers)

HfShape(k) ==
    IF IsMaskedBias(k) THEN <<>>
    ELSE IF IsTransposed(k) THEN Reverse(ModelShape(k))
    ELSE ModelShape(k)

KeyNumber(k) ==
    IF k = ExtraKey THEN 0
    ELSE CHOOSE n \in 1 .. Len(HfKeyOrderPlain(TRUE)) : HfKeyOrderPlain(TRUE)[n] = k

HfTensor(k, shape) ==
    Tensor(shape, LAMBDA p : 100 * KeyNumber(k) + Offset(shape, p) + 1)

Params == {k \in Range(StateDictKeys) : ~IsMaskBuffer(k)}

Flat(shape) == IF Len(shape) = 2 THEN <<shape[1] * shape[2]>> ELSE shape

\* [order, dict]: the keys in iteration order, and the tensors.
Checkpoint(buffers, backwards, kind, key) ==
    LET base == HfKeyOrder(buffers, backwards)
        order ==
            IF kind = "drop" THEN SelectSeq(base, LAMBDA k : k # key)
            ELSE IF kind = "add" THEN Append(base, ExtraKey)
            ELSE IF kind = "rename"
            THEN [n \in 1 .. Len(base) |-> IF base[n] = key THEN ExtraKey ELSE base[n]]
            ELSE base
        shape(k) ==
            IF k = ExtraKey THEN <<n_embd>>
            ELSE IF kind = "reverse" /\ k = key THEN Reverse(HfShape(k))
            ELSE IF kind = "flat" /\ k = key THEN Flat(HfShape(k))
            ELSE HfShape(k)
    IN  [order |-> order,
         dict |-> [k \in Range(order) |-> HfTensor(k, shape(k))]]

Checkpoints ==
    {Checkpoint(b, r, kind, ExtraKey) :
        b \in BOOLEAN, r \in BOOLEAN, kind \in {"none", "add"}}
    \cup {Checkpoint(b, FALSE, kind, k) :
            b \in BOOLEAN, kind \in {"drop", "rename", "reverse", "flat"}, k \in Params}

NoCheckpoint == [order |-> <<>>, dict |-> <<>>]

ImpIdle ==
    /\ ckpt = NoCheckpoint /\ sd = <<>> /\ sd_keys = <<>> /\ sd_keys_hf = <<>>
    /\ imp_i = 0 /\ imp_pc = "idle" /\ copies = <<>> /\ imp_err = "none"

\* lines 139-141 and 145-146: the fresh model and the checkpoint
ImpInit ==
    /\ ckpt \in Checkpoints
    /\ sd = FreshStateDict
    /\ sd_keys = <<>> /\ sd_keys_hf = <<>>
    /\ imp_i = 0 /\ imp_pc = "l142"
    /\ copies = [k \in Range(StateDictKeys) |-> 0]
    /\ imp_err = "none"

\* lines 142-151: the two filtered key lists
ImpKeys ==
    /\ unit = "import" /\ imp_pc = "l142"
    /\ sd_keys' = SelectSeq(StateDictKeys, LAMBDA k : ~IsMaskBuffer(k))
    /\ sd_keys_hf' = SelectSeq(SelectSeq(ckpt.order, LAMBDA k : ~IsMaskedBias(k)),
                               LAMBDA k : ~IsMaskBuffer(k))
    /\ imp_pc' = "l155"
    /\ UNCHANGED <<unit, ckpt, sd, imp_i, copies, imp_err, notImp>>

\* A check that lets every pair of lists through.
LengthsUnchecked(a, b) == TRUE

\* assert len(sd_keys_hf) == len(sd_keys)
LengthsMatch(a, b) == Len(a) = Len(b)

\* line 155
ImpAssertLen ==
    /\ unit = "import" /\ imp_pc = "l155"
    /\ IF LengthsMatch(sd_keys_hf, sd_keys)
       THEN imp_pc' = "l156" /\ imp_err' = imp_err
       ELSE imp_pc' = "raised" /\ imp_err' = "AssertionError"
    /\ UNCHANGED <<unit, ckpt, sd, sd_keys, sd_keys_hf, imp_i, copies, notImp>>

\* lines 156-165: one iteration of the loop over sd_keys_hf
ImpCopy ==
    /\ unit = "import" /\ imp_pc = "l156" /\ imp_i < Len(sd_keys_hf)
    /\ LET k == sd_keys_hf[imp_i + 1]
           src == ckpt.dict[k]
       IN  IF k \notin DOMAIN sd
           THEN /\ imp_pc' = "raised" /\ imp_err' = "KeyError"
                /\ UNCHANGED <<sd, copies, imp_i>>
           ELSE IF IsTransposed(k)
           THEN IF Reverse(src.shape) = sd[k].shape
                THEN /\ sd' = [sd EXCEPT ![k] = CopyInto(@, Transpose(src))]
                     /\ copies' = [copies EXCEPT ![k] = @ + 1]
                     /\ imp_i' = imp_i + 1
                     /\ UNCHANGED <<imp_pc, imp_err>>
                ELSE /\ imp_pc' = "raised" /\ imp_err' = "AssertionError"
                     /\ UNCHANGED <<sd, copies, imp_i>>
           ELSE IF src.shape = sd[k].shape
                THEN /\ sd' = [sd EXCEPT ![k] = CopyInto(@, src)]
                     /\ copies' = [copies EXCEPT ![k] = @ + 1]
                     /\ imp_i' = imp_i + 1
                     /\ UNCHANGED <<imp_pc, imp_err>>
                ELSE /\ imp_pc' = "raised" /\ imp_err' = "AssertionError"
                     /\ UNCHANGED <<sd, copies, imp_i>>
    /\ UNCHANGED <<unit, ckpt, sd_keys, sd_keys_hf, notImp>>

\* line 166
ImpReturn ==
    /\ unit = "import" /\ imp_pc = "l156" /\ imp_i = Len(sd_keys_hf)
    /\ imp_pc' = "returned"
    /\ UNCHANGED <<unit, ckpt, sd, sd_keys, sd_keys_hf, imp_i, copies, imp_err,
                   notImp>>

-----------------------------------------------------------------------------
(***************************************************************************)
(* The training script (train_gpt2.py:183-206)                             *)
(***************************************************************************)

\* B, T = 4, 32
B == 4
T == 32

\* for t_i in range(50)
n_iter == 50

\* The token list tried: consecutive ids, so that each position of the text
\* holds another token.
TokensOf(len, seed) == [n \in 1 .. len |-> seed + n - 1]

\* q[:n]
Take(q, n) == SubSeq(q, 1, Min(n, Len(q)))

\* q[:-1]
DropLast(q) == SubSeq(q, 1, Len(q) - 1)

\* q[1:]
DropFirst(q) == SubSeq(q, 2, Len(q))

\* A view that steps from row to row by the number of rows.
ViewWrongStride(q, rows, cols) ==
    Tensor(<<rows, cols>>, LAMBDA p : q[p[1] * rows + p[2] + 1])

\* q.view(rows, cols) of a contiguous one-dimensional q of rows*cols elements.
View(q, rows, cols) ==
    Tensor(<<rows, cols>>, LAMBDA p : q[p[1] * cols + p[2] + 1])

NoBatch == [shape |-> <<>>, at |-> <<>>]
NoTrainLoss == [iter |-> -1, on |-> <<>>]

\* A zero_grad that leaves the gradients in place.
ZeroGradKept(g) == g

\* optimizer.zero_grad()
ZeroGrad(g) == <<>>

TrainIdle ==
    /\ tokens = <<>> /\ buf = <<>> /\ x = NoBatch /\ y = NoBatch
    /\ t_pc = "idle" /\ t_i = 0 /\ grad = <<>> /\ t_loss = NoTrainLoss
    /\ applied = <<>> /\ events = <<>> /\ t_err = "none"

\* lines 184-189
TrainInit ==
    /\ \E len \in B * T - MaxExtra .. B * T + 1 + MaxExtra, seed \in 0 .. MaxSeed :
           tokens = TokensOf(len, seed)
    /\ buf = <<>> /\ x = NoBatch /\ y = NoBatch
    /\ t_pc = "l190" /\ t_i = 0 /\ grad = <<>> /\ t_loss = NoTrainLoss
    /\ applied = <<>> /\ events = <<>> /\ t_err = "none"

\* lines 190-191
TrainBuf ==
    /\ unit = "train" /\ t_pc = "l190"
    /\ buf' = Take(tokens, B * T + 1)
    /\ t_pc' = "l192"
    /\ UNCHANGED <<unit, tokens, x, y, t_i, grad, t_loss, applied, events, t_err,
                   notTrain>>

\* line 192
TrainX ==
    /\ unit = "train" /\ t_pc = "l192"
    /\ IF Len(DropLast(buf)) = B * T
       THEN x' = View(DropLast(buf), B, T) /\ t_pc' = "l193" /\ t_err' = t_err
       ELSE x' = x /\ t_pc' = "raised" /\ t_err' = "RuntimeError"
    /\ UNCHANGED <<unit, tokens, buf, y, t_i, grad, t_loss, applied, events,
                   notTrain>>

\* line 193
TrainY ==
    /\ unit = "train" /\ t_pc = "l193"
    /\ IF Len(DropFirst(buf)) = B * T
       THEN y' = View(DropFirst(buf), B, T) /\ t_pc' = "l201" /\ t_err' = t_err
       ELSE y' = y /\ t_pc' = "raised" /\ t_err' = "RuntimeError"
    /\ UNCHANGED <<unit, tokens, buf, x, t_i, grad, t_loss, applied, events,
                   notTrain>>

\* line 201: the loop ends once range(50) is exhausted
TrainDone ==
    /\ unit = "train" /\ t_pc = "l201" /\ t_i = n_iter
    /\ t_pc' = "done"
    /\ UNCHANGED <<unit, tokens, buf, x, y, t_i, grad, t_loss, applied, events,
                   t_err, notTrain>>

\* lines 201-202
TrainZeroGrad ==
    /\ unit = "train" /\ t_pc = "l201" /\ t_i < n_iter
    /\ grad' = ZeroGrad(grad)
    /\ events' = Append(events, <<t_i, "zero_grad">>)
    /\ t_pc' = "l203"
    /\ UNCHANGED <<unit, tokens, buf, x, y, t_i, t_loss, applied, t_err, notTrain>>

\* line 203
TrainForward ==
    /\ unit = "train" /\ t_pc = "l203"
    /\ t_loss' = [iter |-> t_i, on |-> <<x, y>>]
    /\ events' = Append(events, <<t_i, "forward">>)
    /\ t_pc' = "l204"
    /\ UNCHANGED <<unit, tokens, buf, x, y, t_i, grad, applied, t_err, notTrain>>

\* line 204: backward adds the loss's gradient to what .grad holds
TrainBackward ==
    /\ unit = "train" /\ t_pc = "l204"
    /\ grad' = Append(grad, t_loss.iter)
    /\ events' = Append(events, <<t_i, "backward">>)
    /\ t_pc' = "l205"
    /\ UNCHANGED <<unit, tokens, buf, x, y, t_i, t_loss, applied, t_err, notTrain>>

\* lines 205-206, and the loop variable's next value
TrainStep ==
    /\ unit = "train" /\ t_pc = "l205"
    /\ applied' = Append(applied, grad)
    /\ events' = Append(events, <<t_i, "step">>)
    /\ t_i' = t_i + 1
    /\ t_pc' = "l201"
    /\ UNCHANGED <<unit, tokens, buf, x, y, grad, t_loss, t_err, notTrain>>

-----------------------------------------------------------------------------
Units == {"attn", "block", "forward", "import", "train"}

Init ==
    /\ unit \in Units
    /\ IF unit = "attn" THEN AttnInit ELSE AttnIdle
    /\ IF unit = "block" THEN BlockInit ELSE BlockIdle
    /\ IF unit = "forward" THEN FwdInit ELSE FwdIdle
    /\ IF unit = "import" THEN ImpInit ELSE ImpIdle
    /\ IF unit = "train" THEN TrainInit ELSE TrainIdle

Next ==
    \/ AttnScores
    \/ AttnScoresModelPy
    \/ AttnMask
    \/ AttnSoftmax
    \/ BlockAttn
    \/ BlockMlp
    \/ FwdAssert
    \/ FwdPos
    \/ FwdWpe
    \/ FwdWte
    \/ FwdAdd
    \/ FwdBlock
    \/ FwdLnF
    \/ FwdLmHead
    \/ FwdLoss
    \/ ImpKeys
    \/ ImpAssertLen
    \/ ImpCopy
    \/ ImpReturn
    \/ TrainBuf
    \/ TrainX
    \/ TrainY
    \/ TrainZeroGrad
    \/ TrainForward
    \/ TrainBackward
    \/ TrainStep
    \/ TrainDone

Spec == Init /\ [][Next]_vars

\* The interpreter runs the next statement as long as there is one.
FairSpec == Spec /\ WF_vars(Next)

-----------------------------------------------------------------------------
(***************************************************************************)
(* The properties checked                                                  *)
(***************************************************************************)

\* C1: in train_gpt2.py's attention, for 1 <= T <= block_size the forward does
\* not raise, the mask slice is T x T, score (i, j) is -inf after line 52 (and
\* has weight zero after the softmax) exactly when j > i, and every row keeps
\* its diagonal entry: no row is all -inf, no weight is nan.
C1_CausalMask ==
    (unit = "attn" /\ a_file = "train_gpt2" /\ a_T \in 1 .. block_size) =>
        /\ a_pc # "raised"
        /\ MaskSliceTrain(a_T).rows = a_T /\ MaskSliceTrain(a_T).cols = a_T
        /\ a_pc \in {"l53", "returned"} => (att.rows = a_T /\ att.cols = a_T)
        /\ a_pc = "l53" =>
              \A r \in 0 .. a_T - 1, c \in 0 .. a_T - 1 :
                  /\ (att.at[<<r, c>>] = "-inf") <=> (c > r)
                  /\ (att.at[<<r, c>>] = "fin") <=> (c <= r)
        /\ a_pc = "returned" =>
              \A r \in 0 .. a_T - 1, c \in 0 .. a_T - 1 :
                  /\ (att.at[<<r, c>>] = "zero") <=> (c > r)
                  /\ (att.at[<<r, c>>] = "pos") <=> (c <= r)

C1_Witness ==
    /\ unit = "attn" /\ a_file = "train_gpt2" /\ a_pc = "returned"
    /\ a_T = block_size /\ a_T >= 2
    /\ att.at[<<0, 1>>] = "zero" /\ att.at[<<1, 1>>] = "pos"

\* C2: model.py's attention forward, for 1 <= T <= block_size, returns, and
\* the mask slice it takes from the buffer is T x T, hides (i, j) exactly
\* when j > i, and is the mask train_gpt2.py applies.
C2_SameMaskAsTrain ==
    (unit = "attn" /\ a_file = "model" /\ a_T \in 1 .. block_size
       /\ a_pc \in {"returned", "raised"}) =>
        /\ a_pc = "returned"
        /\ MaskSliceModelPy(a_T).rows = a_T
        /\ MaskSliceModelPy(a_T).cols = a_T
        /\ \A r \in 0 .. a_T - 1, c \in 0 .. a_T - 1 :
               (MaskSliceModelPy(a_T).at[<<r, c>>] = 0) <=> (c > r)
        /\ MaskSliceModelPy(a_T) = MaskSliceTrain(a_T)

\* The four name endings of the claim, spelled out.
C3_NamedForTranspose(k) ==
    /\ Len(k) >= 3
    /\ SubSeq(k, Len(k) - 2, Len(k)) \in
           { <<"attn", "c_attn", "weight">>, <<"attn", "c_proj", "weight">>,
             <<"mlp", "c_fc", "weight">>, <<"mlp", "c_proj", "weight">> }

\* C3: every key of the filtered checkpoint list that from_pretrained has
\* handled (all of them once it has returned) holds in the model the
\* checkpoint's tensor, transposed exactly when the key ends with one of the
\* four names; a transposed copy was made only with the checkpoint's shape
\* reversed equal to the model's, an unchanged one only with equal shapes.
C3_CopiedOrTransposed ==
    unit = "import" =>
        /\ imp_pc = "returned" => imp_i = Len(sd_keys_hf)
        /\ \A n \in 1 .. Len(sd_keys_hf) :
              n <= imp_i =>
                LET k == sd_keys_hf[n]
                    src == ckpt.dict[k]
                IN  /\ k \in DOMAIN sd
                    /\ ~IsMaskBuffer(k) /\ ~IsMaskedBias(k)
                    /\ sd[k].shape = ModelShape(k)
                    /\ IF C3_NamedForTranspose(k)
                       THEN /\ Len(src.shape) = 2
                            /\ <<src.shape[2], src.shape[1]>> = sd[k].shape
                            /\ \A p \in DOMAIN sd[k].at :
                                   sd[k].at[p] = src.at[<<p[2], p[1]>>]
                       ELSE /\ src.shape = sd[k].shape
                            /\ sd[k] = src

C3_Witness ==
    /\ unit = "import" /\ imp_pc = "returned" /\ imp_i = Len(sd_keys_hf)
    /\ \E n \in 1 .. Len(sd_keys_hf) :
           /\ C3_NamedForTranspose(sd_keys_hf[n])
           /\ copies[sd_keys_hf[n]] = 1
           /\ sd[sd_keys_hf[n]] # ckpt.dict[sd_keys_hf[n]]

C5_Pipeline ==
    [n \in 1 .. n_layer + 5 + (IF targets.isNone THEN 0 ELSE 1) |->
        IF n = 1 THEN <<"wpe", 0>>
        ELSE IF n = 2 THEN <<"wte", 0>>
        ELSE IF n = 3 THEN <<"add", 0>>
        ELSE IF n <= n_layer + 3 THEN <<"h", n - 4>>
        ELSE IF n = n_layer + 4 THEN <<"ln_f", 0>>
        ELSE IF n = n_layer + 5 THEN <<"lm_head", 0>>
        ELSE <<"cross_entropy", 0>>]

\* The value after the first k blocks.
C5_AfterBlocks[k \in 0 .. n_layer] ==
    IF k = 0 THEN <<"add", <<"wpe", <<"pos">>>>, <<"wte", <<"idx">>>>>>
    ELSE <<"h", k - 1, C5_AfterBlocks[k - 1]>>

\* C5: what GPT.forward has evaluated is at every moment an initial part of
\* the pipeline embeddings, sum, blocks 0 .. n_layer-1, ln_f, lm_head, loss;
\* when it returns it has evaluated all of it (the loss when targets are
\* given), and the logits are lm_head(ln_f(h[n_layer-1](... h[0](sum)))).
C5_LinearPipeline ==
    unit = "forward" =>
        /\ Len(stages) <= Len(C5_Pipeline)
        /\ \A n \in 1 .. Len(stages) : stages[n] = C5_Pipeline[n]
        /\ f_pc = "returned" =>
              /\ stages = C5_Pipeline
              /\ logits.term = <<"lm_head", <<"ln_f", C5_AfterBlocks[n_layer]>>>>

C5_Witness ==
    /\ unit = "forward" /\ f_pc = "returned" /\ ~targets.isNone
    /\ Len(stages) = n_layer + 6 /\ n_layer >= 2

\* C6: a call with T <= block_size does not raise; when it returns, logits
\* has shape (B, T, vocab_size), loss is None exactly when targets is None,
\* and a loss that is not None is a scalar over B*T pairs, one per position
\* (b, t): that position's logits row with targets[b, t].
C6_LogitsAndLoss ==
    unit = "forward" =>
        /\ f_T <= block_size => f_pc # "raised"
        /\ f_pc = "returned" =>
              /\ logits.shape = <<f_B, f_T, vocab_size>>
              /\ loss.isNone <=> targets.isNone
              /\ ~targets.isNone =>
                    /\ loss.shape = <<>>
                    /\ Len(loss.pairs) = f_B * f_T
                    /\ \A b \in 0 .. f_B - 1, t \in 0 .. f_T - 1 :
                           \E n \in 1 .. Len(loss.pairs) :
                               loss.pairs[n] = <<<<b, t>>, targets.at[<<b, t>>]>>

C6_Witness ==
    /\ unit = "forward" /\ f_pc = "returned" /\ ~loss.isNone
    /\ f_B >= 2 /\ f_T >= 2
    /\ logits.shape = <<f_B, f_T, vocab_size>>

\* C7: a call with T > block_size ends in an AssertionError with no embedding
\* looked up and no layer evaluated; in a call with T <= block_size the
\* positions looked up are 0 .. T-1, each a row of wpe, which has block_size
\* rows.
C7_BlockSizeGuard ==
    unit = "forward" =>
        /\ wpe_rows = block_size
        /\ f_T > block_size =>
              /\ f_pc \in {"l100", "raised"}
              /\ f_pc = "raised" => f_err = "AssertionError"
              /\ stages = <<>> /\ pos_emb = NoVal /\ tok_emb = NoVal
        /\ f_T <= block_size =>
              /\ f_err = "none"
              /\ f_pc \notin {"l100", "l102"} =>
                    /\ Len(pos) = f_T
                    /\ \A n \in 1 .. f_T : pos[n] = n - 1 /\ pos[n] < wpe_rows

C7_Witness ==
    /\ unit = "forward" /\ f_pc = "raised" /\ f_err = "AssertionError"
    /\ f_T = block_size + 1 /\ stages = <<>>

\* C8: the loop is entered only with key lists of equal length, no entry is
\* written twice, and when from_pretrained returns every entry of the
\* model's state dict other than the '.attn.bias' buffers has been written
\* exactly once, from the checkpoint's entry of the same name, and none
\* holds its initial value; the buffers are untouched.
C8_EveryParameterLoaded ==
    unit = "import" =>
        /\ imp_pc \in {"l156", "returned"} => Len(sd_keys_hf) = Len(sd_keys)
        /\ \A k \in DOMAIN copies : copies[k] <= 1
        /\ imp_pc = "returned" =>
              \A k \in DOMAIN sd :
                  IF Len(k) > 2 /\ SubSeq(k, Len(k) - 1, Len(k)) = <<"attn", "bias">>
                  THEN copies[k] = 0 /\ sd[k] = FreshEntry(k)
                  ELSE /\ copies[k] = 1
                       /\ k \in DOMAIN ckpt.dict
                       /\ sd[k] # FreshEntry(k)
                       /\ \A p \in DOMAIN sd[k].at :
                              \E q \in DOMAIN ckpt.dict[k].at :
                                  sd[k].at[p] = ckpt.dict[k].at[q]

C8_Witness ==
    /\ unit = "import" /\ imp_pc = "returned"
    /\ \E k \in DOMAIN ckpt.dict : IsMaskBuffer(k)
    /\ \E k \in DOMAIN ckpt.dict : IsMaskedBias(k)
    /\ \A k \in Range(sd_keys) : copies[k] = 1

\* The calls of one iteration, in order.
C9_Body == <<"zero_grad", "forward", "backward", "step">>

\* The safety part of C9.
C9_Order ==
    unit = "train" =>
        /\ \A n \in 1 .. Len(events) :
               events[n] = <<(n - 1) \div 4, C9_Body[((n - 1) % 4) + 1]>>
        /\ \A n \in 1 .. Len(applied) : applied[n] = <<n - 1>>
        /\ t_loss.iter >= 0 => t_loss.on = <<x, y>>
        /\ t_pc \in {"l203", "l204", "l205"} => Len(events) > 4 * t_i
        /\ t_pc = "l201" => Len(events) = 4 * t_i /\ Len(applied) = t_i
        /\ t_pc = "done" =>
              /\ t_i = 50
              /\ Len(applied) = 50
              /\ Len(events) = 200

\* C9: the calls made are, iteration by iteration, zero_grad, forward,
\* backward, step; the n-th optimizer step uses the gradient of the n-th
\* iteration's backward pass alone, computed on the batch (x, y); once the
\* batch is built the loop ends, after 50 iterations and 50 optimizer steps.
C9_TrainingLoop ==
    /\ []C9_Order
    /\ (unit = "train" /\ t_pc = "l201" /\ t_i = 0) ~> (t_pc = "done" /\ t_i = 50)

C9_Witness ==
    /\ unit = "train" /\ t_pc = "done" /\ Len(applied) = 50
    /\ applied[50] = <<49>>

\* C10: with at least B*T + 1 tokens the batch is built; x and y have shape
\* (4, 32), x[b, t] = tokens[b*T + t] and y[b, t] = tokens[b*T + t + 1]
\* (tokens counted from 0), so y is x shifted by one position, the last column
\* of y continuing with the next row's first token, or with token B*T.
C10_ShiftedBatch ==
    unit = "train" =>
        /\ Len(tokens) >= B * T + 1 => t_pc # "raised"
        /\ t_pc \notin {"l190", "l192", "l193", "raised"} =>
              /\ x.shape = <<4, 32>> /\ y.shape = <<4, 32>>
              /\ x.shape = <<B, T>>
              /\ \A b \in 0 .. B - 1, t \in 0 .. T - 1 :
                     /\ x.at[<<b, t>>] = tokens[(b * T + t) + 1]
                     /\ y.at[<<b, t>>] = tokens[(b * T + t + 1) + 1]
                     /\ t < T - 1 => y.at[<<b, t>>] = x.at[<<b, t + 1>>]
                     /\ (t = T - 1 /\ b < B - 1) => y.at[<<b, t>>] = x.at[<<b + 1, 0>>]
              /\ y.at[<<B - 1, T - 1>>] = tokens[B * T + 1]

C10_Witness ==
    /\ unit = "train" /\ t_pc = "l201" /\ t_i = 0
    /\ Len(tokens) > B * T + 1
    /\ y.at[<<0, T - 1>>] = x.at[<<1, 0>>]

=============================================================================
